---- MODULE Spec2Model ----
(***************************************************************************)
(* Model of the data layer of the carpentry management program             *)
(* (src/program/database.py) as driven by its callers                      *)
(* (src/program/carpentry.py).  The four SQLite tables are the state; each *)
(* function of database.py is one action.  SQL statements are operators on *)
(* tables, with SQLite's row-at-a-time constraint checking made explicit.  *)
(***************************************************************************)
EXTENDS Integers, Sequences, FiniteSets, TLC

(***************************************************************************)
(* Bounds of the model.                                                    *)
(***************************************************************************)
MaxJobs == 4          \* add_job is only taken while MAX(id) < MaxJobs
MaxQty == 2           \* quantities passed to add_inventory / use_inventory
MaxStock == 4         \* add_inventory is only taken while the sum stays <= MaxStock
MaxCustomers == 3     \* cap on the AUTOINCREMENT counter of customers
MaxCalls == 4         \* concurrent inventory calls are only started while calls < MaxCalls

(***************************************************************************)
(* Strings are sequences of characters over a small alphabet with two      *)
(* cased letters and one uncased character, enough for str.title().        *)
(***************************************************************************)
LowerChars == {"a", "b"}
UpperChars == {"A", "B"}

IsCased(c) == c \in LowerChars \cup UpperChars

ToUpper(c) == CASE c = "a" -> "A" [] c = "b" -> "B" [] OTHER -> c

ToLower(c) == CASE c = "A" -> "a" [] c = "B" -> "b" [] OTHER -> c

\* str.title(): a cased character is upper-cased when the character before
\* it is not cased (or there is none) and lower-cased otherwise.
Title(s) ==
    [i \in 1..Len(s) |->
        IF i > 1 /\ IsCased(s[i-1]) THEN ToLower(s[i]) ELSE ToUpper(s[i])]

\* A nullable SQL value: NULL (Python's None) is the empty tuple, the value v is <<v>>
None == <<>>

Some(v) == <<v>>

VARIABLES
    jobs,          \* table jobs: function from id (INTEGER PRIMARY KEY) to the other columns
    customers,     \* table customers: set of rows [id, name, phone, email]
    customers_seq, \* sqlite_sequence entry of customers (AUTOINCREMENT)
    inventory,     \* table inventory: set of rows [material, quantity]
    registry,      \* table registry: set of rows [material_name]
    last,          \* the last call: [name, args, ret]
    before,        \* the tables as they were when the last call started
    prev,          \* the call before the last one and the tables when it started: [last, before]
    pc,            \* the statement the running job call is at, "idle" between calls
    conn,          \* the jobs table as the open connection sees it, uncommitted writes included
    locals,        \* local variables of the running job call: [new_priority, rows, index]
    sessions,      \* the inventory call each concurrent client is in: [pc, name, material, quantity, result, pending]
    writer,        \* the client whose connection holds the database's write lock, 0 when none does
    ledger,        \* per material, the stock added minus the stock used by the calls that reported success
    calls          \* the number of concurrent inventory calls started

vars == <<jobs, customers, customers_seq, inventory, registry, last, before, prev, pc, conn, locals,
          sessions, writer, ledger, calls>>

Tables ==
    [jobs |-> jobs, customers |-> customers, customers_seq |-> customers_seq,
     inventory |-> inventory, registry |-> registry]

Call(name, args, ret) == [name |-> name, args |-> args, ret |-> ret]

(***************************************************************************)
(* SQL on the jobs table.  A statement yields [ok, t]: ok is FALSE when    *)
(* the statement raised sqlite3.IntegrityError (UNIQUE constraint failed). *)
(***************************************************************************)
SetMin(S) == CHOOSE x \in S : \A y \in S : x <= y

SetMax(S) == CHOOSE x \in S : \A y \in S : x >= y

Ok(t) == [ok |-> TRUE, t |-> t]

Failed(t) == [ok |-> FALSE, t |-> t]

\* the row with id `from` gets id `to`
Rename(t, from, to) ==
    [i \in (DOMAIN t \ {from}) \cup {to} |-> IF i = to THEN t[from] ELSE t[i]]

\* UPDATE jobs SET id = <to> WHERE id = <from>
UpdateId(t, from, to) ==
    IF from \notin DOMAIN t \/ from = to THEN Ok(t)
    ELSE IF to \in DOMAIN t THEN Failed(t)
    ELSE Ok(Rename(t, from, to))

\* UPDATE jobs SET id = id + <delta> WHERE id in <rows>: SQLite first collects
\* the matching rowids, then rewrites them one at a time in ascending order and
\* checks the primary key after each row.
RECURSIVE UpdateRows(_, _, _)
UpdateRows(t, rows, delta) ==
    IF rows = {} THEN Ok(t)
    ELSE LET r == SetMin(rows)
         IN  IF r + delta \in DOMAIN t THEN Failed(t)
             ELSE UpdateRows(Rename(t, r, r + delta), rows \ {r}, delta)

\* SELECT MAX(id) FROM jobs
SelectMaxId(t) == IF DOMAIN t = {} THEN None ELSE Some(SetMax(DOMAIN t))

\* Python truthiness of the fetched MAX(id)
Truthy(v) == v # None /\ v[1] # 0

\* max(1, min(new_priority, max_priority))
Clamp(new_priority, max_priority) ==
    LET m == IF new_priority < max_priority THEN new_priority ELSE max_priority
    IN  IF m > 1 THEN m ELSE 1

(***************************************************************************)
(* Job and priority logic.  Each operator maps the committed jobs table to *)
(* [ok, t]: the committed table after the call and whether the call        *)
(* returned (ok) or raised.  A call that raises never reaches its commit,  *)
(* so everything it wrote is rolled back when its connection is dropped.   *)
(***************************************************************************)

\* the for loop of reorder_priorities over the fetched ids, in ascending order:
\* the index-th id becomes index
RECURSIVE ReorderLoop(_, _, _)
ReorderLoop(t, rows, index) ==
    IF rows = {} THEN Ok(t)
    ELSE LET old_id == SetMin(rows)
             u == UpdateId(t, old_id, index)
         IN  IF u.ok THEN ReorderLoop(u.t, rows \ {old_id}, index + 1) ELSE u

reorder_priorities(t) ==
    LET r == ReorderLoop(t, DOMAIN t, 1)
    IN  IF r.ok THEN Ok(r.t) ELSE Failed(t)

\* the rows the shifting UPDATE of change_priority selects
ShiftWindow(t, old_priority, new_priority) ==
    IF old_priority > new_priority
    THEN {i \in DOMAIN t : i >= new_priority /\ i < old_priority}
    ELSE {i \in DOMAIN t : i > old_priority /\ i <= new_priority}

\* new_priority after the clamp of change_priority
ClampedPriority(t, new_priority) ==
    LET max_priority_row == SelectMaxId(t)
        max_priority == IF Truthy(max_priority_row) THEN max_priority_row[1] ELSE 1
    IN  Clamp(new_priority, max_priority)

change_priority(t, old_priority, new_priority) ==
    LET np == ClampedPriority(t, new_priority)
    IN  IF old_priority = np THEN Ok(t)
        ELSE LET s1 == UpdateId(t, old_priority, 0)
                 s2 == IF ~s1.ok THEN s1
                       ELSE UpdateRows(s1.t, ShiftWindow(s1.t, old_priority, np),
                                       IF old_priority > np THEN 1 ELSE -1)
                 s3 == IF ~s2.ok THEN s2 ELSE UpdateId(s2.t, 0, np)
             IN  IF s3.ok THEN Ok(s3.t) ELSE Failed(t)

\* INSERT INTO jobs (id, customer_name, description, status) VALUES (...)
InsertJob(t, id, row) ==
    IF id \in DOMAIN t THEN Failed(t)
    ELSE Ok([i \in DOMAIN t \cup {id} |-> IF i = id THEN row ELSE t[i]])

add_job(t, customer_name, description, status) ==
    LET max_id_row == SelectMaxId(t)
        max_id == IF Truthy(max_id_row) THEN max_id_row[1] ELSE 0
    IN  InsertJob(t, max_id + 1,
                  [customer_name |-> Title(customer_name),
                   description |-> description, status |-> status])

\* DELETE FROM jobs WHERE id = ?
DeleteJobRow(t, job_id) == [i \in DOMAIN t \ {job_id} |-> t[i]]

\* delete_job without its call of reorder_priorities
delete_job_no_reorder(t, job_id) == Ok(DeleteJobRow(t, job_id))

delete_job(t, job_id) == reorder_priorities(DeleteJobRow(t, job_id))

\* update_job_status whose UPDATE has lost its WHERE clause
update_job_status_all_rows(t, job_id, new_status) ==
    Ok([i \in DOMAIN t |-> [t[i] EXCEPT !.status = new_status]])

\* UPDATE jobs SET status = ? WHERE id = ?
update_job_status(t, job_id, new_status) ==
    Ok([i \in DOMAIN t |->
          IF i = job_id THEN [t[i] EXCEPT !.status = new_status] ELSE t[i]])

(***************************************************************************)
(* Inputs of the job calls.                                                *)
(***************************************************************************)
JobCustomers == {<<"a">>, <<"B">>}

JobDescriptions == {"desk"}

Statuses == {"Active", "Done"}

\* priorities a caller may pass: below 1, in range, and above the maximum
Priorities == -1 .. MaxJobs + 1

Ret(r) == IF r.ok THEN "ok" ELSE "IntegrityError"

JobCall(name, args, r) ==
    /\ jobs' = r.t
    /\ last' = Call(name, args, Ret(r))
    /\ before' = Tables
    /\ UNCHANGED <<customers, customers_seq, inventory, registry, prev, pc, conn, locals,
                   sessions, writer, ledger, calls>>

AddJob ==
    \E customer_name \in JobCustomers, description \in JobDescriptions :
        /\ \A i \in DOMAIN jobs : i < MaxJobs
        /\ JobCall("add_job", <<customer_name, description, "Active">>,
                   add_job(jobs, customer_name, description, "Active"))

DeleteJob ==
    \E job_id \in Priorities :
        JobCall("delete_job", <<job_id>>, delete_job(jobs, job_id))

ChangePriority ==
    \E old_priority \in Priorities, new_priority \in Priorities :
        JobCall("change_priority", <<old_priority, new_priority>>,
                change_priority(jobs, old_priority, new_priority))

EmptyJobs == [i \in {} |-> None]

Materials == {<<"A">>, <<"B">>}

\* the clients that work on the database file at the same time
Clients == {1, 2}

\* a client between two calls
IdleSession ==
    [pc |-> "idle", name |-> "", material |-> <<>>, quantity |-> 0,
     result |-> None, pending |-> {}]

\* the local variables before a call has set them
NoLocals == [new_priority |-> 0, rows |-> {}, index |-> 0]

\* the state after setup_tables() on a fresh database file
Init ==
    /\ jobs = EmptyJobs
    /\ customers = {}
    /\ customers_seq = 0
    /\ inventory = {}
    /\ registry = {}
    /\ last = Call("setup_tables", <<>>, "ok")
    /\ before = [jobs |-> EmptyJobs, customers |-> {}, customers_seq |-> 0,
                 inventory |-> {}, registry |-> {}]
    /\ prev = [last |-> Call("setup_tables", <<>>, "ok"),
               before |-> [jobs |-> EmptyJobs, customers |-> {}, customers_seq |-> 0,
                           inventory |-> {}, registry |-> {}]]
    /\ pc = "idle"
    /\ conn = EmptyJobs
    /\ locals = NoLocals
    /\ sessions = [p \in Clients |-> IdleSession]
    /\ writer = 0
    /\ ledger = [m \in Materials |-> 0]
    /\ calls = 0

NextJobs == AddJob \/ DeleteJob \/ ChangePriority

SpecJobs == Init /\ [][NextJobs]_vars

UpdateJobStatus ==
    \E job_id \in Priorities, new_status \in Statuses :
        JobCall("update_job_status", <<job_id, new_status>>,
                update_job_status(jobs, job_id, new_status))

\* jobs are added, deleted and have their status set
NextStatus == AddJob \/ DeleteJob \/ UpdateJobStatus

SpecStatus == Init /\ [][NextStatus]_vars

(***************************************************************************)
(* Properties of the job calls, checked under SpecJobs.                    *)
(***************************************************************************)
\* the priorities of t are exactly 1..N for its N jobs
Dense(t) == DOMAIN t = 1 .. Cardinality(DOMAIN t)

\* max(1, min(new, N)) for a job set of N jobs: the clamp as the specification states it
ClaimedTarget(t, new) ==
    LET N == Cardinality(DOMAIN t)
        m == IF new < N THEN new ELSE N
    IN  IF m > 1 THEN m ELSE 1

\* where the job at priority p is expected after move(old, c)
ShiftedPriority(p, old, c) ==
    IF p = old THEN c
    ELSE IF old > c /\ p >= c /\ p < old THEN p + 1
    ELSE IF old < c /\ p > old /\ p <= c THEN p - 1
    ELSE p

\* C1: after every add_job, delete_job and change_priority the priorities
\* present are exactly 1..N, N the number of jobs: no gaps, no duplicates.
C1_PrioritiesDense == Dense(jobs)

\* C3: on a dense job set, move(old, new) of an existing old priority with
\* clamped target c # old puts the moved job at c, shifts every job of the
\* window between c and old by one slot towards old, and leaves every other
\* job at its priority.
C3_MoveShiftsWindow ==
    LET b == before.jobs
        old == last.args[1]
        c == ClaimedTarget(b, last.args[2])
    IN  (/\ last.name = "change_priority"
         /\ Dense(b)
         /\ old \in DOMAIN b
         /\ c # old)
        => /\ DOMAIN jobs = DOMAIN b
           /\ \A p \in DOMAIN b : jobs[ShiftedPriority(p, old, c)] = b[p]

\* C4: move(old, new) of an existing job with new outside 1..N raises no error, has the effect
\* of move(old, 1) when new < 1 and of move(old, N) when new > N (N taken as
\* 1 for an empty job set), and leaves the priorities dense.
C4_MoveClampsWithoutError ==
    LET b == before.jobs
        N == Cardinality(DOMAIN b)
        old == last.args[1]
        new == last.args[2]
        edge == IF new < 1 THEN 1 ELSE IF N = 0 THEN 1 ELSE N
    IN  (/\ last.name = "change_priority"
         /\ Dense(b)
         /\ old \in DOMAIN b
         /\ (new < 1 \/ new > N))
        => /\ last.ret = "ok"
           /\ jobs = change_priority(b, old, edge).t
           /\ Dense(jobs)

\* C5: delete(p) of an existing priority p of a dense job set 1..N leaves the
\* other N-1 jobs at 1..N-1 in their order: jobs below p keep their priority,
\* jobs above p move up by exactly one, and no job's other columns change.
C5_DeleteCompacts ==
    LET b == before.jobs
        N == Cardinality(DOMAIN b)
        p == last.args[1]
    IN  (/\ last.name = "delete_job"
         /\ Dense(b)
         /\ p \in DOMAIN b)
        => /\ last.ret = "ok"
           /\ DOMAIN jobs = 1 .. (N - 1)
           /\ \A i \in DOMAIN b : i < p => jobs[i] = b[i]
           /\ \A i \in DOMAIN b : i > p => jobs[i - 1] = b[i]

\* jobs A, B, C at 1, 2, 3; delete priority 2; A and C remain at 1 and 2
C5_Witness ==
    /\ last = Call("delete_job", <<2>>, "ok")
    /\ DOMAIN before.jobs = 1 .. 3
    /\ before.jobs[1].customer_name = <<"A">>
    /\ before.jobs[3].customer_name = <<"B">>
    /\ DOMAIN jobs = 1 .. 2
    /\ jobs[1].customer_name = <<"A">>
    /\ jobs[2].customer_name = <<"B">>

(***************************************************************************)
(* Inventory.  A call yields [ret, t]: what it returned (or raised) and    *)
(* the committed inventory table after it.                                 *)
(***************************************************************************)
Result(ret, t) == [ret |-> ret, t |-> t]

\* SELECT quantity FROM inventory WHERE material = ?, then fetchone()
SelectQuantity(inv, material) ==
    IF \E r \in inv : r.material = material
    THEN Some((CHOOSE r \in inv : r.material = material).quantity)
    ELSE None

\* UPDATE inventory SET quantity = ? WHERE material = ?
UpdateQuantity(inv, material, quantity) ==
    {IF r.material = material THEN [r EXCEPT !.quantity = quantity] ELSE r : r \in inv}

\* add_inventory whose UPDATE stores the new amount instead of the sum
add_inventory_overwrite(inv, material, quantity) ==
    LET result == SelectQuantity(inv, material)
    IN  IF result # None
        THEN Result("ok", UpdateQuantity(inv, material, quantity))
        ELSE Result("ok", inv \cup {[material |-> material, quantity |-> quantity]})

add_inventory(inv, material, quantity) ==
    LET result == SelectQuantity(inv, material)
    IN  IF result # None
        THEN Result("ok", UpdateQuantity(inv, material, result[1] + quantity))
        ELSE IF \E r \in inv : r.material = material
             THEN Result("IntegrityError", inv)
             ELSE Result("ok", inv \cup {[material |-> material, quantity |-> quantity]})

\* use_inventory without the comparison of the stock check
use_inventory_no_check(inv, material, quantity) ==
    LET result == SelectQuantity(inv, material)
    IN  IF result # None
        THEN Result("True", UpdateQuantity(inv, material, result[1] - quantity))
        ELSE Result("False", inv)

\* use_inventory with > in place of >= in the stock check
use_inventory_strict(inv, material, quantity) ==
    LET result == SelectQuantity(inv, material)
    IN  IF result # None /\ result[1] > quantity
        THEN Result("True", UpdateQuantity(inv, material, result[1] - quantity))
        ELSE Result("False", inv)

use_inventory(inv, material, quantity) ==
    LET result == SelectQuantity(inv, material)
    IN  IF result # None /\ result[1] >= quantity
        THEN Result("True", UpdateQuantity(inv, material, result[1] - quantity))
        ELSE Result("False", inv)

\* DELETE FROM inventory WHERE material = ?
delete_material(inv, name) == Result("ok", {r \in inv : r.material # name})

Quantities == 0 .. MaxQty

InventoryCall(name, args, r) ==
    /\ inventory' = r.t
    /\ last' = Call(name, args, r.ret)
    /\ before' = Tables
    /\ prev' = [last |-> last, before |-> before]
    /\ UNCHANGED <<jobs, customers, customers_seq, registry, pc, conn, locals,
                   sessions, writer, ledger, calls>>

AddInventory ==
    \E material \in Materials, quantity \in Quantities :
        /\ \A r \in inventory : r.material = material => r.quantity + quantity <= MaxStock
        /\ InventoryCall("add_inventory", <<material, quantity>>,
                         add_inventory(inventory, material, quantity))

UseInventory ==
    \E material \in Materials, quantity \in Quantities :
        InventoryCall("use_inventory", <<material, quantity>>,
                      use_inventory(inventory, material, quantity))

DeleteMaterial ==
    \E name \in Materials :
        InventoryCall("delete_material", <<name>>, delete_material(inventory, name))

NextInventory == AddInventory \/ UseInventory \/ DeleteMaterial

SpecInventory == Init /\ [][NextInventory]_vars

(***************************************************************************)
(* Properties of the inventory calls, checked under SpecInventory.         *)
(***************************************************************************)
\* the quantity on hand of a material in inv, None when it has no row
OnHand(inv, material) == SelectQuantity(inv, material)

\* C6: use_stock(material, q) returns failure and leaves the whole inventory
\* unchanged when q exceeds the quantity on hand or the material is absent.
C6_UseStockRejects ==
    LET material == last.args[1]
        q == last.args[2]
        have == OnHand(before.inventory, material)
    IN  (/\ last.name = "use_inventory"
         /\ (have = None \/ have[1] < q))
        => /\ last.ret = "False"
           /\ inventory = before.inventory

\* stock 1 of a material, use_stock of 2: failure, the quantity stays 1
C6_Witness ==
    /\ last = Call("use_inventory", <<(<<"A">>), 2>>, "False")
    /\ prev.last = Call("add_inventory", <<(<<"A">>), 1>>, "ok")
    /\ before.inventory = {[material |-> <<"A">>, quantity |-> 1]}
    /\ inventory = {[material |-> <<"A">>, quantity |-> 1]}

\* C7: with non-negative quantities passed in, every quantity stays >= 0; a
\* use_stock beyond the quantity on hand deducts nothing, and a use_stock of
\* exactly the quantity on hand succeeds and leaves the item with quantity 0.
C7_StockNeverNegative ==
    LET material == last.args[1]
        q == last.args[2]
        have == OnHand(before.inventory, material)
    IN  /\ \A r \in inventory : r.quantity >= 0
        /\ (last.name = "use_inventory" /\ have # None /\ have[1] < q)
           => inventory = before.inventory
        /\ (last.name = "use_inventory" /\ have # None /\ have[1] = q)
           => /\ last.ret = "True"
              /\ OnHand(inventory, material) = Some(0)
              /\ {r.material : r \in inventory} = {r.material : r \in before.inventory}

\* stock 2 of a material, use_stock of 2: success, the item stays with quantity 0
C7_Witness ==
    /\ last = Call("use_inventory", <<(<<"A">>), 2>>, "True")
    /\ [material |-> <<"A">>, quantity |-> 2] \in before.inventory
    /\ [material |-> <<"A">>, quantity |-> 0] \in inventory

\* C8: add_stock(material, q1) followed by add_stock(material, q2) leaves the
\* inventory that the single call add_stock(material, q1 + q2) would have left.
C8_AddStockAdds ==
    (/\ prev.last.name = "add_inventory"
     /\ last.name = "add_inventory"
     /\ prev.last.args[1] = last.args[1])
    => inventory = add_inventory(prev.before.inventory, last.args[1],
                                 prev.last.args[2] + last.args[2]).t

\* a material absent beforehand, add_stock of 0 and then of 2: quantity 2
C8_Witness ==
    /\ prev.last = Call("add_inventory", <<(<<"A">>), 0>>, "ok")
    /\ OnHand(prev.before.inventory, <<"A">>) = None
    /\ last = Call("add_inventory", <<(<<"A">>), 2>>, "ok")
    /\ OnHand(inventory, <<"A">>) = Some(2)

(***************************************************************************)
(* Customers.  The table has an AUTOINCREMENT id and no constraint on      *)
(* name.  A call yields [ret, t, seq]: t the committed table and seq the   *)
(* sqlite_sequence entry of the table.                                     *)
(***************************************************************************)
CResult(ret, t, seq) == [ret |-> ret, t |-> t, seq |-> seq]

\* SELECT id FROM customers WHERE name = ?, then fetchone(): the match with
\* the lowest rowid
SelectCustomerId(c, name) ==
    IF \E r \in c : r.name = name
    THEN Some(SetMin({r.id : r \in {x \in c : x.name = name}}))
    ELSE None

\* the id an INSERT with id NULL gets under AUTOINCREMENT
NextCustomerId(c, seq) ==
    LET used == {r.id : r \in c} \cup {seq}
    IN  SetMax(used) + 1

\* add_customer that looks the name up as typed, not title-cased
add_customer_raw_lookup(c, seq, name, phone, email) ==
    LET res == SelectCustomerId(c, name)
        id == NextCustomerId(c, seq)
    IN  IF res # None
        THEN CResult("ok", {IF r.id = res[1]
                            THEN [r EXCEPT !.phone = phone, !.email = email]
                            ELSE r : r \in c}, seq)
        ELSE CResult("ok", c \cup {[id |-> id, name |-> Title(name),
                                    phone |-> phone, email |-> email]}, id)

add_customer(c, seq, name, phone, email) ==
    LET res == SelectCustomerId(c, Title(name))
        id == NextCustomerId(c, seq)
    IN  IF res # None
        THEN CResult("ok", {IF r.id = res[1]
                            THEN [r EXCEPT !.phone = phone, !.email = email]
                            ELSE r : r \in c}, seq)
        ELSE CResult("ok", c \cup {[id |-> id, name |-> Title(name),
                                    phone |-> phone, email |-> email]}, id)

\* DELETE FROM customers WHERE name = ?
delete_customer(c, seq, name) == CResult("ok", {r \in c : r.name # name}, seq)

CustomerNames == {<<"a", " ", "b">>, <<"A", " ", "B">>, <<"b", "A">>}

Phones == {"555-1234", "555-9999"}

Emails == {"", "a@b.com"}

CustomerCall(name, args, r) ==
    /\ customers' = r.t
    /\ customers_seq' = r.seq
    /\ last' = Call(name, args, r.ret)
    /\ before' = Tables
    /\ prev' = [last |-> last, before |-> before]
    /\ UNCHANGED <<jobs, inventory, registry, pc, conn, locals,
                   sessions, writer, ledger, calls>>

AddCustomer ==
    \E name \in CustomerNames, phone \in Phones, email \in Emails :
        /\ customers_seq < MaxCustomers
        /\ CustomerCall("add_customer", <<name, phone, email>>,
                        add_customer(customers, customers_seq, name, phone, email))

DeleteCustomer ==
    \E name \in CustomerNames :
        CustomerCall("delete_customer", <<name>>,
                     delete_customer(customers, customers_seq, name))

NextCustomers == AddCustomer \/ DeleteCustomer

SpecCustomers == Init /\ [][NextCustomers]_vars

(***************************************************************************)
(* Properties of the customer calls, checked under SpecCustomers.          *)
(***************************************************************************)
\* C9: save(name, phone, email) with the title-cased name equal to the name
\* of an existing customer sets that customer's phone and email, keeps its
\* id and name, leaves every other customer alone and adds no customer.
C9_SaveUpdatesInPlace ==
    LET b == before.customers
        name == Title(last.args[1])
    IN  (/\ last.name = "add_customer"
         /\ \E r \in b : r.name = name)
        => /\ Cardinality(customers) = Cardinality(b)
           /\ Cardinality({r \in customers : r.name = name}) = 1
           /\ \E r \in b :
                /\ r.name = name
                /\ customers = (b \ {r}) \cup
                       {[id |-> r.id, name |-> r.name,
                         phone |-> last.args[2], email |-> last.args[3]]}

\* save("a b", "555-1234", "") then save("A B", "555-9999", "a@b.com"): one
\* record, named "A B", with phone "555-9999"
C9_Witness ==
    /\ prev.before.customers = {}
    /\ prev.last = Call("add_customer", <<(<<"a", " ", "b">>), "555-1234", "">>, "ok")
    /\ last = Call("add_customer", <<(<<"A", " ", "B">>), "555-9999", "a@b.com">>, "ok")
    /\ customers = {[id |-> 1, name |-> <<"A", " ", "B">>,
                     phone |-> "555-9999", email |-> "a@b.com"]}

(***************************************************************************)
(* Registry of material names: material_name is the primary key.           *)
(***************************************************************************)
\* INSERT OR IGNORE INTO registry VALUES (?)
InsertOrIgnore(reg, material_name) ==
    IF \E r \in reg : r.material_name = material_name
    THEN reg
    ELSE reg \cup {[material_name |-> material_name]}

\* add_to_registry that stores the name as typed
add_to_registry_raw(reg, name) == Result("ok", InsertOrIgnore(reg, name))

add_to_registry(reg, name) == Result("ok", InsertOrIgnore(reg, Title(name)))

\* DELETE FROM registry WHERE material_name = ?
remove_from_registry(reg, name) ==
    Result("ok", {r \in reg : r.material_name # name})

RegistryNames == {<<"a">>, <<"A">>, <<"a", "B">>, <<"A", "b">>, <<"b", " ", "a">>}

RegistryCall(name, args, r) ==
    /\ registry' = r.t
    /\ last' = Call(name, args, r.ret)
    /\ before' = Tables
    /\ prev' = [last |-> last, before |-> before]
    /\ UNCHANGED <<jobs, customers, customers_seq, inventory, pc, conn, locals,
                   sessions, writer, ledger, calls>>

AddToRegistry ==
    \E name \in RegistryNames :
        RegistryCall("add_to_registry", <<name>>, add_to_registry(registry, name))

RemoveFromRegistry ==
    \E name \in RegistryNames :
        RegistryCall("remove_from_registry", <<name>>,
                     remove_from_registry(registry, name))

NextRegistry == AddToRegistry \/ RemoveFromRegistry

SpecRegistry == Init /\ [][NextRegistry]_vars

(***************************************************************************)
(* Properties of the registry calls, checked under SpecRegistry.           *)
(***************************************************************************)
\* C10: after add(name) the registry holds exactly one entry whose
\* title-cased form is that of name, stored in title case, and an add of a
\* name whose title-cased form is already an entry changes nothing.
C10_RegistryAddIdempotent ==
    LET name == last.args[1]
        same == {r \in registry : Title(r.material_name) = Title(name)}
    IN  last.name = "add_to_registry"
        => /\ same = {[material_name |-> Title(name)]}
           /\ ([material_name |-> Title(name)] \in before.registry
               => registry = before.registry)

\* add("a") into a registry without it, then add("A"): one entry "A", and
\* the second add changed nothing
C10_Witness ==
    /\ [material_name |-> <<"A">>] \notin prev.before.registry
    /\ prev.last = Call("add_to_registry", <<(<<"a">>)>>, "ok")
    /\ last = Call("add_to_registry", <<(<<"A">>)>>, "ok")
    /\ registry = before.registry
    /\ {r \in registry : Title(r.material_name) = <<"A">>} = {[material_name |-> <<"A">>]}

(***************************************************************************)
(* The job calls statement by statement.  A call opens a connection, runs  *)
(* its statements against the connection's view conn and publishes conn to *)
(* jobs at connection.commit().  A statement that raises, and a process    *)
(* that is interrupted, end the call without a commit: the uncommitted     *)
(* writes are lost and jobs stays as last committed.                       *)
(***************************************************************************)
\* connect_db() at the start of a call
StartCall(name, args, first) ==
    /\ pc = "idle"
    /\ pc' = first
    /\ conn' = jobs
    /\ locals' = NoLocals
    /\ last' = Call(name, args, "running")
    /\ before' = Tables
    /\ UNCHANGED <<jobs, customers, customers_seq, inventory, registry, prev,
                   sessions, writer, ledger, calls>>

\* the call ends without having committed: it returned early or raised
EndCall(ret) ==
    /\ pc' = "idle"
    /\ conn' = EmptyJobs
    /\ locals' = NoLocals
    /\ last' = [last EXCEPT !.ret = ret]

\* one statement on the open connection, moving on to `next` unless it raises
Execute(r, next) ==
    /\ IF r.ok
       THEN /\ conn' = r.t
            /\ pc' = next
            /\ UNCHANGED <<last, locals>>
       ELSE EndCall("IntegrityError")
    /\ UNCHANGED <<jobs, customers, customers_seq, inventory, registry, before, prev,
                   sessions, writer, ledger, calls>>

\* connection.commit() followed by connection.close() and the return
CommitAndReturn ==
    /\ jobs' = conn
    /\ EndCall("ok")
    /\ UNCHANGED <<customers, customers_seq, inventory, registry, before, prev,
                   sessions, writer, ledger, calls>>

CallAddJob ==
    \E customer_name \in JobCustomers, description \in JobDescriptions :
        /\ \A i \in DOMAIN jobs : i < MaxJobs
        /\ StartCall("add_job", <<customer_name, description, "Active">>, "add_job:insert")

AddJobInsert ==
    /\ pc = "add_job:insert"
    /\ Execute(add_job(conn, last.args[1], last.args[2], last.args[3]), "add_job:commit")

AddJobCommit ==
    /\ pc = "add_job:commit"
    /\ CommitAndReturn

CallDeleteJob ==
    \E job_id \in Priorities :
        StartCall("delete_job", <<job_id>>, "delete_job:delete")

DeleteJobDelete ==
    /\ pc = "delete_job:delete"
    /\ Execute(Ok(DeleteJobRow(conn, last.args[1])), "delete_job:commit")

\* the commit of delete_job, then its call of reorder_priorities, which opens
\* a connection of its own and fetches the ids
DeleteJobCommit ==
    /\ pc = "delete_job:commit"
    /\ jobs' = conn
    /\ conn' = conn
    /\ locals' = [locals EXCEPT !.rows = DOMAIN conn, !.index = 1]
    /\ pc' = "reorder_priorities:loop"
    /\ UNCHANGED <<customers, customers_seq, inventory, registry, last, before, prev,
                   sessions, writer, ledger, calls>>

\* one iteration of the for loop of reorder_priorities
ReorderUpdate ==
    /\ pc = "reorder_priorities:loop"
    /\ locals.rows # {}
    /\ LET old_id == SetMin(locals.rows)
           u == UpdateId(conn, old_id, locals.index)
       IN  IF u.ok
           THEN /\ conn' = u.t
                /\ locals' = [locals EXCEPT !.rows = locals.rows \ {old_id},
                                            !.index = locals.index + 1]
                /\ UNCHANGED <<pc, last>>
           ELSE EndCall("IntegrityError")
    /\ UNCHANGED <<jobs, customers, customers_seq, inventory, registry, before, prev,
                   sessions, writer, ledger, calls>>

ReorderCommit ==
    /\ pc = "reorder_priorities:loop"
    /\ locals.rows = {}
    /\ CommitAndReturn

CallChangePriority ==
    \E old_priority \in Priorities, new_priority \in Priorities :
        StartCall("change_priority", <<old_priority, new_priority>>, "change_priority:clamp")

\* the clamp of new_priority and the early return
ChangePriorityClamp ==
    /\ pc = "change_priority:clamp"
    /\ LET np == ClampedPriority(conn, last.args[2])
       IN  IF last.args[1] = np
           THEN EndCall("ok")
           ELSE /\ locals' = [locals EXCEPT !.new_priority = np]
                /\ pc' = "change_priority:sentinel"
                /\ UNCHANGED <<conn, last>>
    /\ UNCHANGED <<jobs, customers, customers_seq, inventory, registry, before, prev,
                   sessions, writer, ledger, calls>>

ChangePrioritySentinel ==
    /\ pc = "change_priority:sentinel"
    /\ Execute(UpdateId(conn, last.args[1], 0), "change_priority:shift")

ChangePriorityShift ==
    /\ pc = "change_priority:shift"
    /\ Execute(UpdateRows(conn, ShiftWindow(conn, last.args[1], locals.new_priority),
                          IF last.args[1] > locals.new_priority THEN 1 ELSE -1),
               "change_priority:restore")

ChangePriorityRestore ==
    /\ pc = "change_priority:restore"
    /\ Execute(UpdateId(conn, 0, locals.new_priority), "change_priority:commit")

ChangePriorityCommit ==
    /\ pc = "change_priority:commit"
    /\ CommitAndReturn

\* the process is killed while a call is running
Interrupt ==
    /\ pc # "idle"
    /\ EndCall("interrupted")
    /\ UNCHANGED <<jobs, customers, customers_seq, inventory, registry, before, prev,
                   sessions, writer, ledger, calls>>

NextTxn ==
    \/ CallAddJob \/ AddJobInsert \/ AddJobCommit
    \/ CallDeleteJob \/ DeleteJobDelete \/ DeleteJobCommit
    \/ ReorderUpdate \/ ReorderCommit
    \/ CallChangePriority \/ ChangePriorityClamp \/ ChangePrioritySentinel
    \/ ChangePriorityShift \/ ChangePriorityRestore \/ ChangePriorityCommit
    \/ Interrupt

SpecTxn == Init /\ [][NextTxn]_vars

(***************************************************************************)
(* Properties of the statement-level job calls, checked under SpecTxn.     *)
(***************************************************************************)
\* what the call c leaves of the jobs table t when it runs to its end
Completed(t, c) ==
    CASE c.name = "add_job" -> add_job(t, c.args[1], c.args[2], c.args[3])
      [] c.name = "delete_job" -> delete_job(t, c.args[1])
      [] c.name = "change_priority" -> change_priority(t, c.args[1], c.args[2])

\* a call that ran to its end, statement by statement, has done what the call
\* taken as one step does
StepsAgreeWithCalls ==
    (pc = "idle" /\ last.ret \in {"ok", "IntegrityError"} /\ last.name # "setup_tables")
    => /\ jobs = Completed(before.jobs, last).t
       /\ last.ret = Ret(Completed(before.jobs, last))

\* C2: a job call that is interrupted at any step leaves the committed job
\* set either as it was before the call or as the completed call leaves it.
C2_InterruptedAllOrNothing ==
    last.ret = "interrupted"
    => \/ jobs = before.jobs
       \/ jobs = Completed(before.jobs, last).t

(***************************************************************************)
(* Further properties of change_priority, checked under SpecJobs.          *)
(***************************************************************************)
\* C11: move(p, p) leaves the job set as it was, for every p, and so does
\* every move whose old_priority equals the clamped new_priority.
C11_MoveToSelfNoOp ==
    (/\ last.name = "change_priority"
     /\ \/ last.args[1] = last.args[2]
        \/ last.args[1] = ClampedPriority(before.jobs, last.args[2]))
    => jobs = before.jobs

\* C14: move(old, new) with old the priority of no job leaves the job set as
\* it was: every job keeps its priority and the order is the same.
C14_MoveOfMissingJobNoOp ==
    (/\ last.name = "change_priority"
     /\ last.args[1] \notin DOMAIN before.jobs)
    => jobs = before.jobs

(***************************************************************************)
(* Further properties of the registry calls, checked under SpecRegistry.   *)
(***************************************************************************)
\* C15: for a name whose title-cased form is not in the registry, add(name)
\* followed by remove(name) with the same argument leaves the registry as it
\* was before the add, whatever the letter case of name.
C15_AddThenRemoveRestores ==
    (/\ prev.last.name = "add_to_registry"
     /\ last.name = "remove_from_registry"
     /\ prev.last.args = last.args
     /\ [material_name |-> Title(last.args[1])] \notin prev.before.registry)
    => registry = prev.before.registry

(***************************************************************************)
(* Properties of update_job_status, checked under SpecStatus.              *)
(***************************************************************************)
\* C13: update_status(priority, new_status) sets the status of the job at
\* that priority and nothing else: its priority, customer_name and
\* description and every other job stay, and with no job at that priority the
\* job set is unchanged and no error is raised.
C13_UpdateStatusOnlyStatus ==
    LET b == before.jobs
        job_id == last.args[1]
    IN  last.name = "update_job_status"
        => /\ last.ret = "ok"
           /\ DOMAIN jobs = DOMAIN b
           /\ \A i \in DOMAIN b : i # job_id => jobs[i] = b[i]
           /\ job_id \in DOMAIN b
              => jobs[job_id] = [customer_name |-> b[job_id].customer_name,
                                 description |-> b[job_id].description,
                                 status |-> last.args[2]]
           /\ job_id \notin DOMAIN b => jobs = b

\* two active jobs, update_status(2, "Done"): job 2 is done, job 1 still active
C13_Witness ==
    /\ last = Call("update_job_status", <<2, "Done">>, "ok")
    /\ DOMAIN before.jobs = 1 .. 2
    /\ before.jobs[1].status = "Active"
    /\ before.jobs[2].status = "Active"
    /\ jobs[1] = before.jobs[1]
    /\ jobs[2].status = "Done"
    /\ jobs[2].customer_name = before.jobs[2].customer_name

(***************************************************************************)
(* Inventory calls of two clients of the same database file, statement by  *)
(* statement.  Each call opens its own connection.  Its SELECT runs        *)
(* outside any transaction and reads the committed table; its UPDATE or    *)
(* INSERT opens the transaction and takes the write lock, which only one   *)
(* connection holds at a time; its commit publishes the write.             *)
(***************************************************************************)
\* the inventory calls a client may start
ConcurrentCalls == {"add_inventory", "use_inventory"}

\* whether the call of session s goes on to write after its SELECT
WillWrite(s) ==
    \/ s.name = "add_inventory"
    \/ s.result # None /\ s.result[1] >= s.quantity

\* the table the write statement of session s leaves, given the committed table
WriteOf(s, inv) ==
    IF s.name = "add_inventory"
    THEN IF s.result # None
         THEN Result("ok", UpdateQuantity(inv, s.material, s.result[1] + s.quantity))
         ELSE IF \E r \in inv : r.material = s.material
              THEN Result("IntegrityError", inv)
              ELSE Result("ok", inv \cup {[material |-> s.material,
                                          quantity |-> s.quantity]})
    ELSE Result("ok", UpdateQuantity(inv, s.material, s.result[1] - s.quantity))

\* connect_db() at the start of add_inventory or use_inventory
ConcCall(p) ==
    \E name \in ConcurrentCalls, material \in Materials, quantity \in Quantities :
        /\ sessions[p].pc = "idle"
        /\ calls < MaxCalls
        /\ calls' = calls + 1
        /\ sessions' = [sessions EXCEPT ![p] =
               [IdleSession EXCEPT !.pc = "select", !.name = name,
                                   !.material = material, !.quantity = quantity]]
        /\ UNCHANGED <<jobs, customers, customers_seq, inventory, registry, last, before,
                       prev, pc, conn, locals, writer, ledger>>

\* SELECT quantity FROM inventory WHERE material = ? and fetchone()
ConcSelect(p) ==
    /\ sessions[p].pc = "select"
    /\ sessions' = [sessions EXCEPT
           ![p].result = SelectQuantity(inventory, sessions[p].material),
           ![p].pc = "write"]
    /\ UNCHANGED <<jobs, customers, customers_seq, inventory, registry, last, before,
                   prev, pc, conn, locals, writer, ledger, calls>>

\* the branch on the fetched row: use_inventory returns False without writing,
\* otherwise the UPDATE or INSERT runs and, unless it raises, holds the write lock
ConcWrite(p) ==
    LET s == sessions[p]
        w == WriteOf(s, inventory)
    IN  /\ s.pc = "write"
        /\ WillWrite(s) => writer = 0
        /\ IF WillWrite(s) /\ w.ret = "ok"
           THEN /\ writer' = p
                /\ sessions' = [sessions EXCEPT ![p].pending = w.t, ![p].pc = "commit"]
           ELSE /\ writer' = writer
                /\ sessions' = [sessions EXCEPT ![p] = IdleSession]
        /\ UNCHANGED <<jobs, customers, customers_seq, inventory, registry, last, before,
                       prev, pc, conn, locals, ledger, calls>>

\* the write finds the lock held until the busy timeout runs out:
\* sqlite3.OperationalError, database is locked
ConcBusy(p) ==
    /\ sessions[p].pc = "write"
    /\ WillWrite(sessions[p])
    /\ writer \notin {0, p}
    /\ sessions' = [sessions EXCEPT ![p] = IdleSession]
    /\ UNCHANGED <<jobs, customers, customers_seq, inventory, registry, last, before,
                   prev, pc, conn, locals, writer, ledger, calls>>

\* connection.commit(), connection.close() and the return of success
ConcCommit(p) ==
    LET s == sessions[p]
    IN  /\ s.pc = "commit"
        /\ inventory' = s.pending
        /\ writer' = 0
        /\ ledger' = [ledger EXCEPT ![s.material] =
               IF s.name = "add_inventory" THEN @ + s.quantity ELSE @ - s.quantity]
        /\ sessions' = [sessions EXCEPT ![p] = IdleSession]
        /\ UNCHANGED <<jobs, customers, customers_seq, registry, last, before,
                       prev, pc, conn, locals, calls>>

NextConcurrent ==
    \E p \in Clients :
        ConcCall(p) \/ ConcSelect(p) \/ ConcWrite(p) \/ ConcBusy(p) \/ ConcCommit(p)

SpecConcurrent == Init /\ [][NextConcurrent]_vars

(***************************************************************************)
(* Properties of the concurrent inventory calls, checked under             *)
(* SpecConcurrent.                                                         *)
(***************************************************************************)
\* C12: the check of the quantity on hand and the write that follows it are
\* one atomic unit: with calls of two clients interleaved no stock update is
\* lost (once all calls have returned, every quantity is the stock added
\* minus the stock used by the calls that succeeded) and no quantity is
\* ever negative.
C12_NoLostStockUpdate ==
    /\ \A r \in inventory : r.quantity >= 0
    /\ (\A p \in Clients : sessions[p].pc = "idle")
       => \A r \in inventory : r.quantity = ledger[r.material]

====
